---- MODULE Spec2Model ----
(***************************************************************************)
(* Notion file-URL rewriters and proxy handlers.                           *)
(*                                                                         *)
(*   src/lib/rewrite-notion-pdf-urls.ts  rewriteNotionPdfUrls (legacy)     *)
(*   src/unnamed/part_000                rewriteNotionFileUrls (general)   *)
(*   src/unnamed/part_001                notionFileHandler (302 redirect)  *)
(*   src/unnamed/part_002                assetsPdfHandler (streaming)      *)
(*                                                                         *)
(* JavaScript strings are TLA+ strings; TLC evaluates Len, Head, Tail,     *)
(* SubSeq and \o on them, so the string functions below work on the        *)
(* characters of their argument.                                           *)
(***************************************************************************)
EXTENDS Integers, Sequences, FiniteSets, TLC

VARIABLES
  notion,
  clsInput, clsPc, clsResult,
  rwVariant, rwPageId, rwInput, recordMap, rwPc, rwTodo, rewritten, rwResult, rwFirst,
  rdReq, rdPc, rdRes, rdCalls, rdSigned, rdUnsigned,
  stReq, stPc, stRes, stCalls, stSigned, stUnsigned, stUpstreamUrl, stFetches, stUpstream

clsVars == <<clsInput, clsPc, clsResult>>
rwVars ==
  <<rwVariant, rwPageId, rwInput, recordMap, rwPc, rwTodo, rewritten, rwResult, rwFirst>>
rdVars == <<rdReq, rdPc, rdRes, rdCalls, rdSigned, rdUnsigned>>
stVars ==
  <<stReq, stPc, stRes, stCalls, stSigned, stUnsigned, stUpstreamUrl, stFetches, stUpstream>>
vars == <<notion, clsVars, rwVars, rdVars, stVars>>

(***************************************************************************)
(* String primitives (String.prototype.endsWith, startsWith, indexOf,      *)
(* toLowerCase) over TLA+ strings.                                         *)
(***************************************************************************)
Char(s, i) == SubSeq(s, i, i)

HasChar(s, c) == \E i \in 1..Len(s) : Char(s, i) = c

EndsWith(s, suffix) ==
  /\ Len(s) >= Len(suffix)
  /\ SubSeq(s, Len(s) - Len(suffix) + 1, Len(s)) = suffix

StartsWith(s, prefix) ==
  /\ Len(s) >= Len(prefix)
  /\ SubSeq(s, 1, Len(prefix)) = prefix

\* substring from position i (1-based) to the end
From(s, i) == SubSeq(s, i, Len(s))

\* position of the first character of s that occurs in the string chars, 0 if none
FirstOf(s, chars) ==
  IF \E i \in 1..Len(s) : HasChar(chars, Char(s, i))
    THEN CHOOSE i \in 1..Len(s) :
           /\ HasChar(chars, Char(s, i))
           /\ \A j \in 1..(i - 1) : ~HasChar(chars, Char(s, j))
    ELSE 0

\* position of the last occurrence of character c in s, 0 if none
LastIndexOf(s, c) ==
  IF HasChar(s, c)
    THEN CHOOSE i \in 1..Len(s) :
           /\ Char(s, i) = c
           /\ \A j \in (i + 1)..Len(s) : Char(s, j) # c
    ELSE 0

UpperAlpha == "ABCDEFGHIJKLMNOPQRSTUVWXYZ"
LowerAlpha == "abcdefghijklmnopqrstuvwxyz"
Digits == "0123456789"

LowerChar(c) ==
  IF HasChar(UpperAlpha, c)
    THEN Char(LowerAlpha, CHOOSE i \in 1..Len(UpperAlpha) : Char(UpperAlpha, i) = c)
    ELSE c

RECURSIVE ToLower(_)
ToLower(s) == IF s = "" THEN "" ELSE LowerChar(Head(s)) \o ToLower(Tail(s))

AllIn(s, chars) == \A i \in 1..Len(s) : HasChar(chars, Char(s, i))

RECURSIVE TrimLeft(_)
TrimLeft(s) == IF s # "" /\ Head(s) = " " THEN TrimLeft(Tail(s)) ELSE s

RECURSIVE TrimRight(_)
TrimRight(s) ==
  IF s # "" /\ Char(s, Len(s)) = " " THEN TrimRight(SubSeq(s, 1, Len(s) - 1)) ELSE s

\* drop the leading characters of s that occur in chars
RECURSIVE SkipLeading(_, _)
SkipLeading(s, chars) ==
  IF s # "" /\ HasChar(chars, Head(s)) THEN SkipLeading(Tail(s), chars) ELSE s

(***************************************************************************)
(* new URL(input) with no base, as far as the hostname is concerned        *)
(* (WHATWG URL parser).  ok = FALSE models the TypeError that new URL      *)
(* throws.  Not modelled: file: URLs, IPv6 / IPv4 literals, punycode and   *)
(* percent-escapes inside the host (a '%' in the host fails the parse).    *)
(***************************************************************************)
SpecialSchemes == {"http", "https", "ftp", "ws", "wss"}

ForbiddenHostChars == " #/:<>?@[\\]^|"

ParseFailure == [ok |-> FALSE, hostname |-> ""]

\* authority = [userinfo "@"] host [":" port], cut out of the text after the scheme
ParseAuthority(authority, special) ==
  LET at       == LastIndexOf(authority, "@")
      hostport == From(authority, at + 1)
      colon    == FirstOf(hostport, ":")
      host     == IF colon = 0 THEN hostport ELSE SubSeq(hostport, 1, colon - 1)
      port     == IF colon = 0 THEN "" ELSE From(hostport, colon + 1)
  IN  IF at > 0 /\ hostport = "" THEN ParseFailure
      ELSE IF special /\ host = "" THEN ParseFailure
      ELSE IF ~AllIn(port, Digits) \/ Len(port) > 5 THEN ParseFailure
      ELSE IF \E i \in 1..Len(host) : HasChar(ForbiddenHostChars, Char(host, i))
        THEN ParseFailure
      ELSE IF special /\ HasChar(host, "%") THEN ParseFailure
      ELSE [ok |-> TRUE, hostname |-> IF special THEN ToLower(host) ELSE host]

ParseURL(input) ==
  LET s      == TrimRight(TrimLeft(input))
      colon  == FirstOf(s, ":")
      scheme == ToLower(SubSeq(s, 1, colon - 1))
      rest   == From(s, colon + 1)
  IN  IF colon < 2 THEN ParseFailure
      ELSE IF ~HasChar(LowerAlpha, Head(scheme)) THEN ParseFailure
      ELSE IF ~AllIn(scheme, LowerAlpha \o Digits \o "+-.") THEN ParseFailure
      ELSE IF scheme \in SpecialSchemes
        THEN LET afterSlashes == SkipLeading(rest, "/\\")
                 stop         == FirstOf(afterSlashes, "/?#\\")
                 authority    == IF stop = 0 THEN afterSlashes
                                 ELSE SubSeq(afterSlashes, 1, stop - 1)
             IN  ParseAuthority(authority, TRUE)
      ELSE IF StartsWith(rest, "//")
        THEN LET afterSlashes == From(rest, 3)
                 stop         == FirstOf(afterSlashes, "/?#")
                 authority    == IF stop = 0 THEN afterSlashes
                                 ELSE SubSeq(afterSlashes, 1, stop - 1)
             IN  ParseAuthority(authority, FALSE)
      ELSE [ok |-> TRUE, hostname |-> ""]

(***************************************************************************)
(* The four classifiers.                                                   *)
(***************************************************************************)
ALLOWED_HOSTS == {"amazonaws.com", "notion.so"}

\* src/lib/rewrite-notion-pdf-urls.ts:3-16
isNotionHostedUrlPdf(url) ==
  IF url = "" THEN FALSE
  ELSE LET parsed == ParseURL(url)
       IN  IF ~parsed.ok THEN FALSE
           ELSE \/ EndsWith(parsed.hostname, "amazonaws.com")
                \/ parsed.hostname = "notion.so"
                \/ EndsWith(parsed.hostname, ".notion.so")

\* src/unnamed/part_000:14-26
isNotionHostedUrlFile(url) ==
  IF url = "" THEN FALSE
  ELSE LET parsed == ParseURL(url)
       IN  IF ~parsed.ok THEN FALSE
           ELSE \/ EndsWith(parsed.hostname, "amazonaws.com")
                \/ parsed.hostname = "notion.so"
                \/ EndsWith(parsed.hostname, ".notion.so")

\* variant: suffix match without the separating dot
isAllowedHostRedirect_suffix(rawUrl) ==
  LET parsed == ParseURL(rawUrl)
  IN  IF ~parsed.ok THEN FALSE
      ELSE \E host \in ALLOWED_HOSTS : EndsWith(parsed.hostname, host)

\* src/unnamed/part_001:8-17
isAllowedHostRedirect(rawUrl) ==
  LET parsed == ParseURL(rawUrl)
  IN  IF ~parsed.ok THEN FALSE
      ELSE \E host \in ALLOWED_HOSTS :
             parsed.hostname = host \/ EndsWith(parsed.hostname, "." \o host)

\* variant: any URL that parses is accepted
isAllowedHostStream_anyHost(rawUrl) == ParseURL(rawUrl).ok

\* src/unnamed/part_002:23-32
isAllowedHostStream(rawUrl) ==
  LET parsed == ParseURL(rawUrl)
  IN  IF ~parsed.ok THEN FALSE
      ELSE \E host \in ALLOWED_HOSTS :
             parsed.hostname = host \/ EndsWith(parsed.hostname, "." \o host)

(***************************************************************************)
(* JavaScript values and record maps.                                      *)
(* A value is [type, val]: type is what typeof yields ("string",           *)
(* "number", "undefined"); val is the string's text.                       *)
(***************************************************************************)
Str(s) == [type |-> "string", val |-> s]
Undefined == [type |-> "undefined", val |-> ""]
Num == [type |-> "number", val |-> "42"]
\* a repeated query parameter arrives as an array of strings
ArrayValue == [type |-> "object", val |-> "array"]
Absent == [type |-> "absent", val |-> ""]
AbsentBlock == [type |-> "absent", source |-> Undefined]

\* JavaScript truthiness of a value (the empty string and undefined are falsy)
Truthy(v) ==
  \/ v.type \in {"string", "number"} /\ v.val # ""
  \/ v.type = "object" /\ v.val # "null"

EmptyMap == [k \in {} |-> Undefined]

\* obj[key] = value
Put(obj, key, value) ==
  [k \in DOMAIN obj \cup {key} |-> IF k = key THEN value ELSE obj[k]]

\* a total choice function with Absent marking the keys the object lacks
Present(choice) == [k \in {x \in DOMAIN choice : choice[x].type # Absent.type} |-> choice[k]]

(***************************************************************************)
(* encodeURIComponent over printable ASCII: every character outside        *)
(* A-Z a-z 0-9 - _ . ! ~ * ' ( ) becomes %XX, XX its code in upper-case    *)
(* hexadecimal.                                                            *)
(***************************************************************************)
\* printable ASCII from code 32 to 95, and from code 97 to 126
AsciiLow == " !\"#$%&'()*+,-./0123456789:;<=>?@ABCDEFGHIJKLMNOPQRSTUVWXYZ[\\]^_"
AsciiHigh == "abcdefghijklmnopqrstuvwxyz{|}~"

HexDigits == "0123456789ABCDEF"

UriUnreserved == UpperAlpha \o LowerAlpha \o Digits \o "-_.!~*'()"

CharCode(c) ==
  IF HasChar(AsciiLow, c)
    THEN 31 + (CHOOSE i \in 1..Len(AsciiLow) : Char(AsciiLow, i) = c)
    ELSE 96 + (CHOOSE i \in 1..Len(AsciiHigh) : Char(AsciiHigh, i) = c)

PercentEscape(c) ==
  "%" \o Char(HexDigits, (CharCode(c) \div 16) + 1) \o Char(HexDigits, (CharCode(c) % 16) + 1)

RECURSIVE encodeURIComponent(_)
encodeURIComponent(s) ==
  IF s = "" THEN ""
  ELSE (IF HasChar(UriUnreserved, Head(s)) THEN Head(s) ELSE PercentEscape(Head(s)))
         \o encodeURIComponent(Tail(s))

(***************************************************************************)
(* Record-map rewriters.                                                   *)
(***************************************************************************)
\* src/unnamed/part_000:8
FILE_BLOCK_TYPES == {"pdf", "file", "audio", "video"}

\* recordMap.block?.[blockId]?.value?.type
BlockTypeOf(rm, blockId) ==
  IF rm.block.defined /\ blockId \in DOMAIN rm.block.entries
    THEN Str(rm.block.entries[blockId].type)
    ELSE Undefined

\* the proxy reference of the legacy variant
PdfProxyPath(pageId, blockId) ==
  "/assets-pdf/" \o encodeURIComponent(pageId) \o "/" \o encodeURIComponent(blockId)

\* variant: the page identifier is not escaped
FileProxyPath_rawPageId(pageId, blockId) ==
  "/api/notion-file?blockId=" \o encodeURIComponent(blockId) \o "&pageId=" \o pageId

\* the proxy reference of the general variant
FileProxyPath(pageId, blockId) ==
  "/api/notion-file?blockId=" \o encodeURIComponent(blockId)
    \o "&pageId=" \o encodeURIComponent(pageId)

\* variant: the stored reference is still an absolute URL on the signed host
RewritePdfEntry_absolute(rm, pageId, blockId, signedUrl) ==
  LET blockType == BlockTypeOf(rm, blockId)
  IN  IF blockType = Str("pdf") /\ isNotionHostedUrlPdf(signedUrl.val)
        THEN Str(signedUrl.val \o "#" \o PdfProxyPath(pageId, blockId))
        ELSE signedUrl

\* the value stored for one string entry by rewriteNotionPdfUrls
RewritePdfEntry(rm, pageId, blockId, signedUrl) ==
  LET blockType == BlockTypeOf(rm, blockId)
  IN  IF blockType = Str("pdf") /\ isNotionHostedUrlPdf(signedUrl.val)
        THEN Str(PdfProxyPath(pageId, blockId))
        ELSE signedUrl

\* the value stored for one string entry by rewriteNotionFileUrls
RewriteFileEntry(rm, pageId, blockId, signedUrl) ==
  LET blockType == BlockTypeOf(rm, blockId)
  IN  IF /\ Truthy(blockType)
         /\ blockType.type = "string" /\ blockType.val \in FILE_BLOCK_TYPES
         /\ isNotionHostedUrlFile(signedUrl.val)
        THEN Str(FileProxyPath(pageId, blockId))
        ELSE signedUrl

\* typeof signedUrl === 'string'
IsString(v) == v.type = "string"

\* typeof signedUrl === 'string' for the entry of blockId
IsStringEntry_any(rm, blockId) == TRUE

IsStringEntry(rm, blockId) == IsString(rm.signed_urls.entries[blockId])

\* variant: the store also goes to the input's own signed-URL mapping
AssignRewritten_inPlace(rm, rw, blockId, value) ==
  [recordMap |-> [rm EXCEPT !.signed_urls.entries[blockId] = value],
   rewritten |-> Put(rw, blockId, value)]

\* rewritten[blockId] = value : the store goes to the fresh object, the
\* input record map is not written
AssignRewritten(rm, rw, blockId, value) ==
  [recordMap |-> rm, rewritten |-> Put(rw, blockId, value)]

\* !recordMap?.signed_urls
NoSignedUrls(rm) == rm.isNull \/ ~rm.signed_urls.defined

\* { ...recordMap, signed_urls: rewritten }
SpreadWithSignedUrls(rm, rw) ==
  [rm EXCEPT !.signed_urls = [defined |-> TRUE, entries |-> rw]]

(***************************************************************************)
(* Redirect handler (notionFileHandler), src/unnamed/part_001.             *)
(* A response is [status, error, location, cacheControl, sent]: sent       *)
(* counts the responses written (json or redirect).                        *)
(***************************************************************************)
NoResponse == [status |-> 0, error |-> "", location |-> "", cacheControl |-> "", sent |-> 0]

\* res.status(code).json({ error })
JsonError(res, code, error) ==
  [res EXCEPT !.status = code, !.error = error, !.sent = @ + 1]

\* res.redirect(302, url)
Redirect302(res, url) ==
  [res EXCEPT !.status = 302, !.location = url, !.sent = @ + 1]

\* variant: the header is not set
SetCacheControl_dropped(res, value) == res

\* res.setHeader('Cache-Control', value)
SetCacheControl(res, value) == [res EXCEPT !.cacheControl = value]

\* variant: only the type is checked
InvalidParam_typeOnly(param) == ~IsString(param)

\* !param || typeof param !== 'string'
InvalidParam(param) == ~Truthy(param) \/ ~IsString(param)

\* variant: the URL last resolved by any request is kept at module scope and
\* served to the next one
SignedUrlOf_shared(rm, blockId) ==
  IF stUpstreamUrl.type = "string" THEN stUpstreamUrl
  ELSE IF ~rm.isNull /\ rm.signed_urls.defined /\ blockId \in DOMAIN rm.signed_urls.entries
    THEN rm.signed_urls.entries[blockId]
    ELSE Undefined

\* recordMap?.signed_urls?.[blockId]
SignedUrlOf(rm, blockId) ==
  IF ~rm.isNull /\ rm.signed_urls.defined /\ blockId \in DOMAIN rm.signed_urls.entries
    THEN rm.signed_urls.entries[blockId]
    ELSE Undefined

\* recordMap?.block?.[blockId]?.value?.properties?.source?.[0]?.[0]
RawSourceOf(rm, blockId) ==
  IF ~rm.isNull /\ rm.block.defined /\ blockId \in DOMAIN rm.block.entries
    THEN rm.block.entries[blockId].source
    ELSE Undefined

\* the getPage options of the two calls
SignedCall(pageId) == [pageId |-> pageId, signFileUrls |-> TRUE]

\* variant: the retry signs again
UnsignedCall_retrySigned(pageId) == [pageId |-> pageId, signFileUrls |-> TRUE]
UnsignedCall(pageId) == [pageId |-> pageId, signFileUrls |-> FALSE]

\* variant: a missing raw URL is reported as an upstream failure
RawFallbackResponse_502(res, rm, blockId) ==
  LET rawUrl == RawSourceOf(rm, blockId)
  IN  IF ~Truthy(rawUrl) THEN JsonError(res, 502, "Failed to fetch signed URL")
      ELSE IF ~isAllowedHostRedirect(rawUrl.val)
        THEN JsonError(res, 400, "Unexpected redirect target")
      ELSE Redirect302(res, rawUrl.val)

\* part_001:78-89, the raw-URL fallback after a signed fetch without signed URL
RawFallbackResponse(res, rm, blockId) ==
  LET rawUrl == RawSourceOf(rm, blockId)
  IN  IF ~Truthy(rawUrl) THEN JsonError(res, 404, "File URL not found for block")
      ELSE IF ~isAllowedHostRedirect(rawUrl.val)
        THEN JsonError(res, 400, "Unexpected redirect target")
      ELSE Redirect302(res, rawUrl.val)

\* part_001:60-89, the signed fetch returned recordMap
SignedFetchResponse(res, rm, blockId) ==
  LET freshUrl == SignedUrlOf(rm, blockId)
  IN  IF Truthy(freshUrl)
        THEN IF ~isAllowedHostRedirect(freshUrl.val)
               THEN JsonError(res, 400, "Unexpected redirect target")
               ELSE Redirect302(
                      SetCacheControl(res, "public, s-maxage=3300, stale-while-revalidate=86400"),
                      freshUrl.val)
        ELSE RawFallbackResponse(res, rm, blockId)

\* variant: the fallback never redirects
UnsignedFetchResponse_noRedirect(res, rm, blockId) ==
  LET rawUrl == RawSourceOf(rm, blockId)
  IN  IF ~Truthy(rawUrl) THEN JsonError(res, 404, "File URL not found for block")
      ELSE JsonError(res, 400, "Unexpected redirect target")

\* part_001:105-116, the unsigned fetch returned recordMap
UnsignedFetchResponse(res, rm, blockId) ==
  LET rawUrl == RawSourceOf(rm, blockId)
  IN  IF ~Truthy(rawUrl) THEN JsonError(res, 404, "File URL not found for block")
      ELSE IF ~isAllowedHostRedirect(rawUrl.val)
        THEN JsonError(res, 400, "Unexpected redirect target")
      ELSE Redirect302(res, rawUrl.val)

\* variant: the second failure is rethrown and no response is written
RedirectCatch_rethrow(res) == [res EXCEPT !.error = "unhandled"]

\* part_001:117-120, the catch block around the unsigned fetch
RedirectCatch(res) == JsonError(res, 502, "Failed to fetch signed URL")

(***************************************************************************)
(* Streaming proxy (assetsPdfHandler), src/unnamed/part_002.               *)
(* The response adds to the redirect handler's the status line sent by     *)
(* res.status, the headers set, and how the body ended.                    *)
(***************************************************************************)
PASSTHROUGH_HEADERS ==
  <<"accept-ranges", "cache-control", "content-length", "content-range",
    "content-type", "etag", "last-modified">>

FORWARDED_HEADERS == <<"range", "if-none-match", "if-modified-since">>

Names(seq) == {seq[i] : i \in 1..Len(seq)}

NoStreamResponse ==
  [status |-> 0, error |-> "", headers |-> EmptyMap, body |-> "none",
   ended |-> FALSE, destroyed |-> FALSE, sent |-> 0]

\* res.status(code).json({ error }) in the streaming proxy
StreamJsonError(res, code, error) ==
  [res EXCEPT !.status = code, !.error = error, !.body = "json", !.ended = TRUE,
              !.sent = @ + 1]

\* variant: the error is not caught and no response is written
StreamCatch_escape(res) == [res EXCEPT !.error = "unhandled"]

\* part_002:142-145, the handler's catch block
StreamCatch(res) == StreamJsonError(res, 502, "Failed to proxy PDF")

\* part_002:34-37
getRawSourceUrl(rm, blockId) ==
  LET rawUrl == RawSourceOf(rm, blockId)
  IN  IF IsString(rawUrl) THEN rawUrl ELSE Undefined

\* variant: the raw source URL is preferred over the fresh signed URL
ResolveSigned_rawFirst(freshUrl, fallbackUrl) ==
  IF Truthy(fallbackUrl) THEN fallbackUrl
  ELSE IF IsString(freshUrl) THEN freshUrl
  ELSE Undefined

\* part_002:47-55, what resolvePdfUrl returns after the signed fetch;
\* Undefined when it goes on to the unsigned fetch
ResolveSigned(freshUrl, fallbackUrl) ==
  IF IsString(freshUrl) THEN freshUrl
  ELSE IF Truthy(fallbackUrl) THEN fallbackUrl
  ELSE Undefined

\* part_002:98-107, the request headers handed to fetch
ForwardHeaders(reqHeaders) ==
  [h \in {n \in Names(FORWARDED_HEADERS) : IsString(reqHeaders[n])} |-> reqHeaders[h].val]

\* part_002:109-112, the request issued to the resolved URL
FetchCall(url, req) ==
  [url |-> url, method |-> req.method, headers |-> ForwardHeaders(req.headers)]

\* part_002:116-121, copy the pass-through headers that upstream supplied
RECURSIVE CopyPassthrough(_, _, _)
CopyPassthrough(resHeaders, upstreamHeaders, i) ==
  IF i > Len(PASSTHROUGH_HEADERS) THEN resHeaders
  ELSE LET header == PASSTHROUGH_HEADERS[i]
           value  == IF header \in DOMAIN upstreamHeaders THEN upstreamHeaders[header] ELSE ""
       IN  CopyPassthrough(IF value # "" THEN Put(resHeaders, header, value) ELSE resHeaders,
                           upstreamHeaders, i + 1)

\* variant: the default replaces what upstream supplied
DefaultCacheControl_always(resHeaders) ==
  Put(resHeaders, "cache-control", "public, s-maxage=300, stale-while-revalidate=3600")

\* part_002:123-125
DefaultCacheControl(resHeaders) ==
  IF "cache-control" \notin DOMAIN resHeaders \/ resHeaders["cache-control"] = ""
    THEN Put(resHeaders, "cache-control", "public, s-maxage=300, stale-while-revalidate=3600")
    ELSE resHeaders

\* part_002:114-125, status and headers of the client response
StreamHead(res, upstreamRes) ==
  [res EXCEPT !.status = upstreamRes.status,
              !.headers = DefaultCacheControl(CopyPassthrough(@, upstreamRes.headers, 1))]

\* variant: no listener on the body's 'error' event
OnBodyError_ignored(res) == res

\* part_002:135-139, the listener on the upstream body's 'error' event
OnBodyError(res) == IF ~res.ended THEN [res EXCEPT !.destroyed = TRUE] ELSE res

(***************************************************************************)
(* Bounds and input domains.                                               *)
(***************************************************************************)
\* number of block identifiers a record map may mention
NumBlocks == 2

BlockIdPool == <<"b1", "a/b", "c d", "e%f">>

BlockIds == {BlockIdPool[i] : i \in 1..NumBlocks}

PageIds == {"p/2"}

\* Object.entries order: insertion order, taken to be the pool's order
EntriesOrder(obj) == SelectSeq(BlockIdPool, LAMBDA k : k \in DOMAIN obj)

RewriteUrls ==
  {"https://s3.amazonaws.com/x", "https://evilamazonaws.com/x", "https://evil.com/x", ""}

SignedChoices == {Absent, Num} \cup {Str(u) : u \in RewriteUrls}

BlockChoices ==
  {AbsentBlock} \cup
  {[type |-> t, source |-> Undefined] : t \in {"pdf", "file", "audio", "video", "image"}}

NullRecordMap ==
  [isNull |-> TRUE,
   signed_urls |-> [defined |-> FALSE, entries |-> EmptyMap],
   block |-> [defined |-> FALSE, entries |-> EmptyMap],
   collection |-> "none"]

RewriterRecordMaps ==
  {NullRecordMap} \cup
  {[isNull |-> FALSE,
    signed_urls |-> [defined |-> FALSE, entries |-> EmptyMap],
    block |-> [defined |-> TRUE, entries |-> Present(b)],
    collection |-> "c1"] : b \in [BlockIds -> BlockChoices]} \cup
  {[isNull |-> FALSE,
    signed_urls |-> [defined |-> TRUE, entries |-> Present(s)],
    block |-> [defined |-> TRUE, entries |-> Present(b)],
    collection |-> "c1"] : s \in [BlockIds -> SignedChoices], b \in [BlockIds -> BlockChoices]}

\* what the upstream API may hold for a block: its freshly signed URL and the
\* raw source URL of its properties
UpstreamUrls ==
  {"https://s3.amazonaws.com/x", "https://evilamazonaws.com/x", "https://evil.com/x", ""}

UpstreamSignedChoices == {Absent} \cup {Str(u) : u \in UpstreamUrls}

UpstreamBlockChoices ==
  {AbsentBlock, [type |-> "pdf", source |-> Undefined]} \cup
  {[type |-> "pdf", source |-> Str(u)] : u \in UpstreamUrls}

\* the blocks of the page held upstream
UpstreamBlockIds == {BlockIdPool[1], BlockIdPool[2]}

\* the record maps getPage may resolve with
UpstreamRecordMaps ==
  {NullRecordMap} \cup
  {[isNull |-> FALSE,
    signed_urls |-> [defined |-> FALSE, entries |-> EmptyMap],
    block |-> [defined |-> TRUE, entries |-> Present(b)],
    collection |-> "c1"] : b \in [UpstreamBlockIds -> UpstreamBlockChoices]} \cup
  {[isNull |-> FALSE,
    signed_urls |-> [defined |-> TRUE, entries |-> Present(s)],
    block |-> [defined |-> TRUE, entries |-> Present(b)],
    collection |-> "c1"] : s \in [UpstreamBlockIds -> UpstreamSignedChoices],
                           b \in [UpstreamBlockIds -> UpstreamBlockChoices]}

\* the outcome of a getPage call: not made, thrown, or a record map
\* the record maps of pages whose blocks all carry the same signed URL and
\* the same source
UniformPages(signedChoices, blockChoices) ==
  {NullRecordMap} \cup
  {[isNull |-> FALSE,
    signed_urls |-> [defined |-> FALSE, entries |-> EmptyMap],
    block |-> [defined |-> TRUE, entries |-> Present([id \in UpstreamBlockIds |-> b])],
    collection |-> "c1"] : b \in blockChoices} \cup
  {[isNull |-> FALSE,
    signed_urls |-> [defined |-> TRUE, entries |-> Present([id \in UpstreamBlockIds |-> s])],
    block |-> [defined |-> TRUE, entries |-> Present([id \in UpstreamBlockIds |-> b])],
    collection |-> "c1"] : s \in signedChoices, b \in blockChoices}

\* the pages the streaming proxy is run against: resolvePdfUrl reads only
\* the entries of the requested block
StreamPages == UniformPages(UpstreamSignedChoices, UpstreamBlockChoices)

NotCalled == [kind |-> "none", map |-> NullRecordMap]
Thrown == [kind |-> "throw", map |-> NullRecordMap]
Returned(rm) == [kind |-> "map", map |-> rm]

\* req.query values: missing, empty, a single string, or an array
BlockIdParams == {Undefined, Str(""), ArrayValue} \cup {Str(b) : b \in BlockIds}
PageIdParams == {Undefined, Str(""), ArrayValue, Str("p1")}

RedirectRequests ==
  [method : {"GET", "HEAD", "POST"}, blockId : BlockIdParams, pageId : PageIdParams]

NoRequest == [method |-> "", blockId |-> Undefined, pageId |-> Undefined]

\* the locals of resolvePdfUrl after a getPage call: freshUrl and fallbackUrl
NotResolved == [kind |-> "none", fresh |-> Undefined, raw |-> Undefined]
ResolveThrown == [kind |-> "throw", fresh |-> Undefined, raw |-> Undefined]

HeaderChoices == {Undefined, Str("v")}

\* req.headers: the three conditional/range headers, each sent or not, and a
\* cookie that every client sends
ClientHeaders ==
  {[n \in Names(FORWARDED_HEADERS) \cup {"cookie"} |-> IF n = "cookie" THEN Str("sid=1") ELSE f[n]] :
     f \in [Names(FORWARDED_HEADERS) -> HeaderChoices]}

StreamRequests ==
  [method : {"GET", "HEAD", "POST"}, blockId : BlockIdParams, pageId : PageIdParams,
   headers : ClientHeaders]

NoStreamRequest ==
  [method |-> "", blockId |-> Undefined, pageId |-> Undefined,
   headers |-> [n \in Names(FORWARDED_HEADERS) \cup {"cookie"} |-> Undefined]]

\* header sets an upstream file server may answer with
UpstreamHeaderSets ==
  {EmptyMap,
   [n \in {"content-type", "content-length", "set-cookie"} |-> "x"],
   [n \in {"cache-control", "etag", "server"} |-> IF n = "etag" THEN "" ELSE "y"],
   [n \in Names(PASSTHROUGH_HEADERS) \cup {"set-cookie"} |-> "z"]}

UpstreamResponses ==
  [status : {200, 206, 304, 404}, headers : UpstreamHeaderSets, hasBody : BOOLEAN]

NoUpstreamResponse == [status |-> 0, headers |-> EmptyMap, hasBody |-> FALSE]

NoReturn == [ref |-> "none", value |-> NullRecordMap]

(***************************************************************************)
(* Classifier runs.                                                        *)
(***************************************************************************)
\* number of subdomain labels put in front of a domain
MaxSubLabels == 1

SubLabels == {"s3", "www"}

RECURSIVE LabelPrefixes(_)
LabelPrefixes(n) ==
  IF n = 0 THEN {""}
  ELSE LabelPrefixes(n - 1) \cup {l \o "." \o p : l \in SubLabels, p \in LabelPrefixes(n - 1)}

\* a prefix either ends with a dot (a subdomain) or is glued to the domain
HostPrefixes == LabelPrefixes(MaxSubLabels) \cup {"evil" \o p : p \in LabelPrefixes(MaxSubLabels)}

Domains == {"amazonaws.com", "notion.so", "NOTION.SO", "evil.com", "notion.so.evil.com", "so"}

Schemes == {"https://", "http://", "https:", "foo://", "mailto:", "//", ""}

UrlTails == {"", "/x", ":443/x", "?u=.notion.so", "@evil.com/", ":x"}

Samples ==
  {"https://s3.amazonaws.com/x", "https://evilamazonaws.com/x", "https://notion.so",
   "https://NOTION.so:443/a", "https://notion.so@evil.com/", "/assets-pdf/p1/b1",
   "", "https:notion.so", "foo://notion.so/x", "mailto:a@notion.so",
   "https://evil.com/notion.so", "https://evil.com?x=.amazonaws.com", " https://www.notion.so ",
   "https://evil.com\\.notion.so", "https://notion.so:x/", "not a url", "https://",
   "/api/notion-file?blockId=b1&pageId=p1"}

ClassifierInputs ==
  Samples \cup
  {sc \o pre \o d \o t : sc \in Schemes, pre \in HostPrefixes, d \in Domains, t \in UrlTails}

NoResult == [pdf |-> FALSE, file |-> FALSE, redirect |-> FALSE, stream |-> FALSE]

ClsIdle ==
  /\ clsInput = ""
  /\ clsPc = "idle"
  /\ clsResult = NoResult

RwIdle ==
  /\ rwVariant = "pdf"
  /\ rwPageId = ""
  /\ rwInput = NullRecordMap
  /\ recordMap = NullRecordMap
  /\ rwPc = "idle"
  /\ rwTodo = <<>>
  /\ rewritten = EmptyMap
  /\ rwResult = NoReturn
  /\ rwFirst = NoReturn

RdIdle ==
  /\ rdReq = NoRequest
  /\ rdPc = "idle"
  /\ rdRes = NoResponse
  /\ rdCalls = <<>>
  /\ rdSigned = NotCalled
  /\ rdUnsigned = NotCalled

StIdle ==
  /\ stReq = NoStreamRequest
  /\ stPc = "idle"
  /\ stRes = NoStreamResponse
  /\ stCalls = <<>>
  /\ stSigned = NotResolved
  /\ stUnsigned = NotResolved
  /\ stUpstreamUrl = Undefined
  /\ stFetches = <<>>
  /\ stUpstream = NoUpstreamResponse

\* part_000:78-84, the shared API client; pages is what getPage can resolve
\* with, nothing in the repository writes to the client
NotionClient(pages) == [pages |-> pages]

InitClassifier ==
  /\ notion = NotionClient({})
  /\ clsInput \in ClassifierInputs
  /\ clsPc = "start"
  /\ clsResult = NoResult
  /\ RwIdle
  /\ RdIdle
  /\ StIdle

Classify ==
  /\ clsPc = "start"
  /\ clsPc' = "done"
  /\ clsResult' = [pdf      |-> isNotionHostedUrlPdf(clsInput),
                   file     |-> isNotionHostedUrlFile(clsInput),
                   redirect |-> isAllowedHostRedirect(clsInput),
                   stream   |-> isAllowedHostStream(clsInput)]
  /\ UNCHANGED <<notion, clsInput, rwVars, rdVars, stVars>>

NextClassifier == Classify

SpecClassifier == InitClassifier /\ [][NextClassifier]_vars

(***************************************************************************)
(* Rewriter runs: rewriteNotionPdfUrls (rwVariant = "pdf") and             *)
(* rewriteNotionFileUrls (rwVariant = "file"), one loop iteration per      *)
(* step.  recordMap is the caller's object, rwInput remembers what it was  *)
(* when the call was made.                                                 *)
(***************************************************************************)
InitRewrite ==
  /\ notion = NotionClient({})
  /\ rwVariant \in {"pdf", "file"}
  /\ rwPageId \in PageIds
  /\ recordMap \in RewriterRecordMaps
  /\ rwInput = recordMap
  /\ rwPc = "start"
  /\ rwTodo = <<>>
  /\ rewritten = EmptyMap
  /\ rwResult = NoReturn
  /\ rwFirst = NoReturn
  /\ ClsIdle
  /\ RdIdle
  /\ StIdle

\* if (!recordMap?.signed_urls) return recordMap
RewriteReturnInput ==
  /\ rwPc = "start"
  /\ NoSignedUrls(recordMap)
  /\ rwPc' = "done"
  /\ rwResult' = [ref |-> "input", value |-> recordMap]
  /\ UNCHANGED <<notion, rwFirst, rwVariant, rwPageId, rwInput, recordMap, rwTodo, rewritten, clsVars, rdVars, stVars>>

\* const rewritten = {} ; Object.entries(recordMap.signed_urls)
RewriteEnterLoop ==
  /\ rwPc = "start"
  /\ ~NoSignedUrls(recordMap)
  /\ rwPc' = "loop"
  /\ rewritten' = EmptyMap
  /\ rwTodo' = EntriesOrder(recordMap.signed_urls.entries)
  /\ UNCHANGED <<notion, rwFirst, rwVariant, rwPageId, rwInput, recordMap, rwResult, clsVars, rdVars, stVars>>

\* one iteration with typeof signedUrl !== 'string' : continue
RewriteSkipEntry ==
  /\ rwPc = "loop"
  /\ rwTodo # <<>>
  /\ ~IsStringEntry(recordMap, Head(rwTodo))
  /\ rwTodo' = Tail(rwTodo)
  /\ UNCHANGED <<notion, rwFirst, rwVariant, rwPageId, rwInput, recordMap, rwPc, rewritten, rwResult, clsVars, rdVars, stVars>>

\* one iteration for a string entry
RewriteEntry ==
  /\ rwPc = "loop"
  /\ rwTodo # <<>>
  /\ LET blockId   == Head(rwTodo)
         signedUrl == recordMap.signed_urls.entries[blockId]
         value     == IF rwVariant = "pdf"
                        THEN RewritePdfEntry(recordMap, rwPageId, blockId, signedUrl)
                        ELSE RewriteFileEntry(recordMap, rwPageId, blockId, signedUrl)
         heap      == AssignRewritten(recordMap, rewritten, blockId, value)
     IN  /\ IsStringEntry(recordMap, blockId)
         /\ recordMap' = heap.recordMap
         /\ rewritten' = heap.rewritten
  /\ rwTodo' = Tail(rwTodo)
  /\ UNCHANGED <<notion, rwFirst, rwVariant, rwPageId, rwInput, rwPc, rwResult, clsVars, rdVars, stVars>>

\* return { ...recordMap, signed_urls: rewritten }
RewriteReturnCopy ==
  /\ rwPc = "loop"
  /\ rwTodo = <<>>
  /\ rwPc' = "done"
  /\ rwResult' = [ref |-> "fresh", value |-> SpreadWithSignedUrls(recordMap, rewritten)]
  /\ UNCHANGED <<notion, rwFirst, rwVariant, rwPageId, rwInput, recordMap, rwTodo, rewritten, clsVars, rdVars, stVars>>

NextRewrite ==
  \/ RewriteReturnInput
  \/ RewriteEnterLoop
  \/ RewriteSkipEntry
  \/ RewriteEntry
  \/ RewriteReturnCopy

SpecRewrite == InitRewrite /\ [][NextRewrite]_vars

\* the caller hands the returned record map to the same rewriter once more,
\* with the same pageId; rwFirst keeps what the first call returned
RewriteAgain ==
  /\ rwPc = "done"
  /\ rwFirst = NoReturn
  /\ rwFirst' = rwResult
  /\ recordMap' = rwResult.value
  /\ rwInput' = rwResult.value
  /\ rwPc' = "start"
  /\ rwTodo' = <<>>
  /\ rewritten' = EmptyMap
  /\ rwResult' = NoReturn
  /\ UNCHANGED <<notion, rwVariant, rwPageId, clsVars, rdVars, stVars>>

NextRewriteTwice ==
  \/ NextRewrite
  \/ RewriteAgain

SpecRewriteTwice == InitRewrite /\ [][NextRewriteTwice]_vars

(***************************************************************************)
(* One request to the redirect handler.  The handler runs to its first     *)
(* await in one step and resumes when the getPage promise settles.         *)
(***************************************************************************)
InitRedirect ==
  /\ notion = NotionClient(UpstreamRecordMaps)
  /\ rdReq \in RedirectRequests
  /\ rdPc = "start"
  /\ rdRes = NoResponse
  /\ rdCalls = <<>>
  /\ rdSigned = NotCalled
  /\ rdUnsigned = NotCalled
  /\ ClsIdle
  /\ RwIdle
  /\ StIdle

\* part_001:36-38
RedirectRejectMethod ==
  /\ rdPc = "start"
  /\ rdReq.method # "GET"
  /\ rdRes' = JsonError(rdRes, 405, "Method not allowed")
  /\ rdPc' = "done"
  /\ UNCHANGED <<notion, rdReq, rdCalls, rdSigned, rdUnsigned, clsVars, rwVars, stVars>>

\* part_001:40-48
RedirectRejectParams ==
  /\ rdPc = "start"
  /\ rdReq.method = "GET"
  /\ InvalidParam(rdReq.blockId) \/ InvalidParam(rdReq.pageId)
  /\ rdRes' = IF InvalidParam(rdReq.blockId)
                THEN JsonError(rdRes, 400, "Missing blockId parameter")
                ELSE JsonError(rdRes, 400, "Missing pageId parameter")
  /\ rdPc' = "done"
  /\ UNCHANGED <<notion, rdReq, rdCalls, rdSigned, rdUnsigned, clsVars, rwVars, stVars>>

\* part_001:50-58, await notion.getPage(pageId, { signFileUrls: true })
RedirectCallSigned ==
  /\ rdPc = "start"
  /\ rdReq.method = "GET"
  /\ ~InvalidParam(rdReq.blockId)
  /\ ~InvalidParam(rdReq.pageId)
  /\ rdCalls' = Append(rdCalls, SignedCall(rdReq.pageId.val))
  /\ rdPc' = "awaitSigned"
  /\ UNCHANGED <<notion, rdReq, rdRes, rdSigned, rdUnsigned, clsVars, rwVars, stVars>>

\* part_001:60-89, the signed fetch resolves
RedirectSignedReturns ==
  /\ rdPc = "awaitSigned"
  /\ \E rm \in notion.pages :
       /\ rdSigned' = Returned(rm)
       /\ rdRes' = SignedFetchResponse(rdRes, rm, rdReq.blockId.val)
  /\ rdPc' = "done"
  /\ UNCHANGED <<notion, rdReq, rdCalls, rdUnsigned, clsVars, rwVars, stVars>>

\* part_001:90-103, the signed fetch rejects: retry without signing
RedirectSignedThrows ==
  /\ rdPc = "awaitSigned"
  /\ rdSigned' = Thrown
  /\ rdCalls' = Append(rdCalls, UnsignedCall(rdReq.pageId.val))
  /\ rdPc' = "awaitUnsigned"
  /\ UNCHANGED <<notion, rdReq, rdRes, rdUnsigned, clsVars, rwVars, stVars>>

\* part_001:105-116, the unsigned fetch resolves
RedirectUnsignedReturns ==
  /\ rdPc = "awaitUnsigned"
  /\ \E rm \in notion.pages :
       /\ rdUnsigned' = Returned(rm)
       /\ rdRes' = UnsignedFetchResponse(rdRes, rm, rdReq.blockId.val)
  /\ rdPc' = "done"
  /\ UNCHANGED <<notion, rdReq, rdCalls, rdSigned, clsVars, rwVars, stVars>>

\* part_001:117-120, the unsigned fetch rejects too
RedirectUnsignedThrows ==
  /\ rdPc = "awaitUnsigned"
  /\ rdUnsigned' = Thrown
  /\ rdRes' = RedirectCatch(rdRes)
  /\ rdPc' = "done"
  /\ UNCHANGED <<notion, rdReq, rdCalls, rdSigned, clsVars, rwVars, stVars>>

NextRedirect ==
  \/ RedirectRejectMethod
  \/ RedirectRejectParams
  \/ RedirectCallSigned
  \/ RedirectSignedReturns
  \/ RedirectSignedThrows
  \/ RedirectUnsignedReturns
  \/ RedirectUnsignedThrows

SpecRedirect == InitRedirect /\ [][NextRedirect]_vars

\* every getPage promise settles (resolves or rejects) and the handler then
\* runs its continuation
SpecRedirectFair == SpecRedirect /\ WF_vars(NextRedirect)

(***************************************************************************)
(* One request to the streaming proxy.  resolvePdfUrl runs inside the      *)
(* handler; the handler suspends at the getPage calls, at fetch, and while *)
(* the upstream body is piped.                                             *)
(***************************************************************************)
InitStream ==
  /\ notion = NotionClient(StreamPages)
  /\ stReq \in StreamRequests
  /\ stPc = "start"
  /\ stRes = NoStreamResponse
  /\ stCalls = <<>>
  /\ stSigned = NotResolved
  /\ stUnsigned = NotResolved
  /\ stUpstreamUrl = Undefined
  /\ stFetches = <<>>
  /\ stUpstream = NoUpstreamResponse
  /\ ClsIdle
  /\ RwIdle
  /\ RdIdle

\* part_002:78-80
StreamRejectMethod ==
  /\ stPc = "start"
  /\ stReq.method \notin {"GET", "HEAD"}
  /\ stRes' = StreamJsonError(stRes, 405, "Method not allowed")
  /\ stPc' = "done"
  /\ UNCHANGED <<notion, stReq, stCalls, stSigned, stUnsigned, stUpstreamUrl, stFetches, stUpstream,
                 clsVars, rwVars, rdVars>>

\* part_002:82-89
StreamRejectParams ==
  /\ stPc = "start"
  /\ stReq.method \in {"GET", "HEAD"}
  /\ InvalidParam(stReq.blockId) \/ InvalidParam(stReq.pageId)
  /\ stRes' = IF InvalidParam(stReq.blockId)
                THEN StreamJsonError(stRes, 400, "Missing blockId parameter")
                ELSE StreamJsonError(stRes, 400, "Missing pageId parameter")
  /\ stPc' = "done"
  /\ UNCHANGED <<notion, stReq, stCalls, stSigned, stUnsigned, stUpstreamUrl, stFetches, stUpstream,
                 clsVars, rwVars, rdVars>>

\* part_002:91-92 and 40-45, resolvePdfUrl awaits getPage with signing
StreamCallSigned ==
  /\ stPc = "start"
  /\ stReq.method \in {"GET", "HEAD"}
  /\ ~InvalidParam(stReq.blockId)
  /\ ~InvalidParam(stReq.pageId)
  /\ stCalls' = Append(stCalls, SignedCall(stReq.pageId.val))
  /\ stPc' = "awaitSigned"
  /\ UNCHANGED <<notion, stReq, stRes, stSigned, stUnsigned, stUpstreamUrl, stFetches, stUpstream,
                 clsVars, rwVars, rdVars>>

\* part_002:94-112, resolvePdfUrl returned upstreamUrl: check the host, then
\* await fetch
StreamProceed(upstreamUrl) ==
  IF ~isAllowedHostStream(upstreamUrl)
    THEN /\ stUpstreamUrl' = Str(upstreamUrl)
         /\ stRes' = StreamJsonError(stRes, 400, "Unexpected file host")
         /\ stPc' = "done"
         /\ UNCHANGED stFetches
    ELSE /\ stUpstreamUrl' = Str(upstreamUrl)
         /\ stFetches' = Append(stFetches, FetchCall(upstreamUrl, stReq))
         /\ stPc' = "awaitFetch"
         /\ UNCHANGED stRes

\* part_002:60-64, resolvePdfUrl awaits getPage without signing
StreamCallUnsigned ==
  /\ stCalls' = Append(stCalls, UnsignedCall(stReq.pageId.val))
  /\ stPc' = "awaitUnsigned"
  /\ UNCHANGED <<notion, stRes, stUpstreamUrl, stFetches>>

\* part_002:47-55, the signed fetch resolves
StreamSignedReturns ==
  /\ stPc = "awaitSigned"
  /\ \E rm \in notion.pages :
       LET freshUrl    == SignedUrlOf(rm, stReq.blockId.val)
           fallbackUrl == getRawSourceUrl(rm, stReq.blockId.val)
       IN  /\ stSigned' = [kind |-> "map", fresh |-> freshUrl, raw |-> fallbackUrl]
           /\ IF ResolveSigned(freshUrl, fallbackUrl).type = "string"
                THEN /\ StreamProceed(ResolveSigned(freshUrl, fallbackUrl).val)
                     /\ UNCHANGED stCalls
                ELSE StreamCallUnsigned
  /\ UNCHANGED <<notion, stReq, stUnsigned, stUpstream, clsVars, rwVars, rdVars>>

\* part_002:56-58, the signed fetch rejects
StreamSignedThrows ==
  /\ stPc = "awaitSigned"
  /\ stSigned' = ResolveThrown
  /\ StreamCallUnsigned
  /\ UNCHANGED <<notion, stReq, stUnsigned, stUpstream, clsVars, rwVars, rdVars>>

\* part_002:66-71, the unsigned fetch resolves; without a raw URL
\* resolvePdfUrl throws and the handler's catch answers 502
StreamUnsignedReturns ==
  /\ stPc = "awaitUnsigned"
  /\ \E rm \in notion.pages :
       LET fallbackUrl == getRawSourceUrl(rm, stReq.blockId.val)
       IN  /\ stUnsigned' = [kind |-> "map", fresh |-> Undefined, raw |-> fallbackUrl]
           /\ IF ~Truthy(fallbackUrl)
                THEN /\ stRes' = StreamCatch(stRes)
                     /\ stPc' = "done"
                     /\ UNCHANGED <<stUpstreamUrl, stFetches>>
                ELSE StreamProceed(fallbackUrl.val)
  /\ UNCHANGED <<notion, stReq, stCalls, stSigned, stUpstream, clsVars, rwVars, rdVars>>

\* part_002:60 and 142-145, the unsigned fetch rejects
StreamUnsignedThrows ==
  /\ stPc = "awaitUnsigned"
  /\ stUnsigned' = ResolveThrown
  /\ stRes' = StreamCatch(stRes)
  /\ stPc' = "done"
  /\ UNCHANGED <<notion, stReq, stCalls, stSigned, stUpstreamUrl, stFetches, stUpstream,
                 clsVars, rwVars, rdVars>>

\* part_002:114-141, fetch resolves with the upstream response
StreamFetchReturns ==
  /\ stPc = "awaitFetch"
  /\ \E upstreamRes \in UpstreamResponses :
       /\ stUpstream' = upstreamRes
       /\ IF stReq.method = "HEAD" \/ ~upstreamRes.hasBody
            THEN /\ stRes' = [StreamHead(stRes, upstreamRes) EXCEPT !.ended = TRUE, !.sent = @ + 1]
                 /\ stPc' = "done"
            ELSE /\ stRes' = [StreamHead(stRes, upstreamRes) EXCEPT !.body = "piping", !.sent = @ + 1]
                 /\ stPc' = "piping"
  /\ UNCHANGED <<notion, stReq, stCalls, stSigned, stUnsigned, stUpstreamUrl, stFetches,
                 clsVars, rwVars, rdVars>>

\* part_002:109 and 142-145, fetch rejects
StreamFetchThrows ==
  /\ stPc = "awaitFetch"
  /\ stRes' = StreamCatch(stRes)
  /\ stPc' = "done"
  /\ UNCHANGED <<notion, stReq, stCalls, stSigned, stUnsigned, stUpstreamUrl, stFetches, stUpstream,
                 clsVars, rwVars, rdVars>>

\* part_002:141, the piped upstream body ends and pipe ends the response
StreamBodyEnds ==
  /\ stPc = "piping"
  /\ stRes' = [stRes EXCEPT !.body = "piped", !.ended = TRUE]
  /\ stPc' = "done"
  /\ UNCHANGED <<notion, stReq, stCalls, stSigned, stUnsigned, stUpstreamUrl, stFetches, stUpstream,
                 clsVars, rwVars, rdVars>>

\* part_002:135-139, the upstream body emits 'error'
StreamBodyErrors ==
  /\ stPc = "piping"
  /\ stRes' = OnBodyError(stRes)
  /\ stPc' = "done"
  /\ UNCHANGED <<notion, stReq, stCalls, stSigned, stUnsigned, stUpstreamUrl, stFetches, stUpstream,
                 clsVars, rwVars, rdVars>>

NextStream ==
  \/ StreamRejectMethod
  \/ StreamRejectParams
  \/ StreamCallSigned
  \/ StreamSignedReturns
  \/ StreamSignedThrows
  \/ StreamUnsignedReturns
  \/ StreamUnsignedThrows
  \/ StreamFetchReturns
  \/ StreamFetchThrows
  \/ StreamBodyEnds
  \/ StreamBodyErrors

SpecStream == InitStream /\ [][NextStream]_vars

\* every promise the handler awaits settles, and a piped upstream body either
\* ends or emits 'error'
SpecStreamFair == SpecStream /\ WF_vars(NextStream)

(***************************************************************************)
(* The server: one request to each route in flight at once.  Each handler  *)
(* runs to its next await and yields, so the two requests interleave at    *)
(* their await points; both use the one client of part_000.                *)
(***************************************************************************)
\* the pages held upstream while both routes are served
ServerPages ==
  UniformPages({Absent, Str("https://s3.amazonaws.com/x"), Str("https://evil.com/x")},
               {AbsentBlock,
                [type |-> "pdf", source |-> Str("https://s3.amazonaws.com/x")],
                [type |-> "pdf", source |-> Str("https://evil.com/x")]})

\* the requests in flight: well-formed or rejected, for one block of one page
ServerRedirectRequests ==
  {r \in RedirectRequests :
     /\ r.method \in {"GET", "POST"}
     /\ r.blockId \in {Str(BlockIdPool[1]), Undefined}
     /\ r.pageId = Str("p1")}

ServerStreamRequests ==
  {r \in StreamRequests :
     /\ r.blockId \in {Str(BlockIdPool[1]), Str("")}
     /\ r.pageId = Str("p1")
     /\ r.headers["range"] = r.headers["if-none-match"]
     /\ r.headers["range"] = r.headers["if-modified-since"]}

InitServer ==
  /\ notion = NotionClient(ServerPages)
  /\ rdReq \in ServerRedirectRequests
  /\ rdPc = "start"
  /\ rdRes = NoResponse
  /\ rdCalls = <<>>
  /\ rdSigned = NotCalled
  /\ rdUnsigned = NotCalled
  /\ stReq \in ServerStreamRequests
  /\ stPc = "start"
  /\ stRes = NoStreamResponse
  /\ stCalls = <<>>
  /\ stSigned = NotResolved
  /\ stUnsigned = NotResolved
  /\ stUpstreamUrl = Undefined
  /\ stFetches = <<>>
  /\ stUpstream = NoUpstreamResponse
  /\ ClsIdle
  /\ RwIdle

NextServer ==
  \/ NextRedirect
  \/ NextStream

SpecServer == InitServer /\ [][NextServer]_vars

(***************************************************************************)
(* Properties.                                                             *)
(***************************************************************************)
\* the documented rule: the hostname is an allow-listed domain or a
\* subdomain of one
OnAllowList(hostname) ==
  \E domain \in {"amazonaws.com", "notion.so"} :
    hostname = domain \/ EndsWith(hostname, "." \o domain)

\* the input parses as a URL whose hostname is on the allow-list
HostedUrl(url) == ParseURL(url).ok /\ OnAllowList(ParseURL(url).hostname)

(***************************************************************************)
(* Redirect handler properties.                                            *)
(***************************************************************************)
RdDone == rdPc = "done"

\* the request passed the method and parameter checks
RdValidRequest ==
  /\ rdReq.method = "GET"
  /\ rdReq.blockId.type = "string" /\ rdReq.blockId.val # ""
  /\ rdReq.pageId.type = "string" /\ rdReq.pageId.val # ""

\* a value that is a URL: a non-empty string
IsUrl(v) == v.type = "string" /\ v.val # ""

\* what the upstream record map holds for the requested block
FreshIn(outcome) ==
  IF outcome.kind = "map" /\ ~outcome.map.isNull /\ outcome.map.signed_urls.defined
     /\ rdReq.blockId.val \in DOMAIN outcome.map.signed_urls.entries
    THEN outcome.map.signed_urls.entries[rdReq.blockId.val]
    ELSE Undefined

RawIn(outcome) ==
  IF outcome.kind = "map" /\ ~outcome.map.isNull /\ outcome.map.block.defined
     /\ rdReq.blockId.val \in DOMAIN outcome.map.block.entries
    THEN outcome.map.block.entries[rdReq.blockId.val].source
    ELSE Undefined

\* the URL selected for the block: the fresh signed URL, or the raw source
\* URL when there is no signed URL; Undefined when the fetches gave none
RdSelectedUrl ==
  IF rdSigned.kind = "map"
    THEN IF IsUrl(FreshIn(rdSigned)) THEN FreshIn(rdSigned) ELSE RawIn(rdSigned)
    ELSE RawIn(rdUnsigned)

\* C1: every 302 response has a Location whose hostname is amazonaws.com or
\* notion.so or ends with '.amazonaws.com' / '.notion.so'; whenever the URL
\* selected for the block fails this check the response is 400 and no
\* redirect is issued.
C1_RedirectOnlyToAllowedHosts ==
  /\ rdRes.status = 302 =>
       /\ ParseURL(rdRes.location).ok
       /\ OnAllowList(ParseURL(rdRes.location).hostname)
  /\ (RdDone /\ RdValidRequest /\ IsUrl(RdSelectedUrl) /\ ~HostedUrl(RdSelectedUrl.val)) =>
       /\ rdRes.status = 400
       /\ rdRes.location = ""

\* the upstream gave a URL on a look-alike host and the handler answered 400
C1_Witness ==
  /\ RdDone
  /\ RdValidRequest
  /\ RdSelectedUrl = Str("https://evilamazonaws.com/x")
  /\ rdRes.status = 400
  /\ rdRes.location = ""

\* C8: a non-GET request gets 405; a GET request whose blockId or pageId is
\* missing, empty or not a single string gets 400; in both cases no getPage
\* call is made; the method check comes first.
C8_InputValidation ==
  RdDone =>
    /\ rdReq.method # "GET" => rdRes.status = 405 /\ rdCalls = <<>>
    /\ (rdReq.method = "GET" /\ ~RdValidRequest) => rdRes.status = 400 /\ rdCalls = <<>>

\* a non-GET request without parameters answered 405
C8_Witness ==
  /\ RdDone
  /\ rdReq = [method |-> "POST", blockId |-> Undefined, pageId |-> Str("")]
  /\ rdRes.status = 405
  /\ rdCalls = <<>>

\* C9: when the signed getPage call throws and the unsigned call returns a
\* record map whose block has a raw source URL on an allowed host, the
\* response is a 302 redirect to exactly that raw URL.
C9_FallbackRedirectsToRawUrl ==
  (/\ RdDone
   /\ rdSigned.kind = "throw"
   /\ rdUnsigned.kind = "map"
   /\ IsUrl(RawIn(rdUnsigned))
   /\ HostedUrl(RawIn(rdUnsigned).val)) =>
    /\ rdRes.status = 302
    /\ rdRes.location = RawIn(rdUnsigned).val
    /\ rdRes.sent = 1

\* the signed fetch threw and the fallback redirected to the raw S3 URL
C9_Witness ==
  /\ RdDone
  /\ rdSigned.kind = "throw"
  /\ RawIn(rdUnsigned) = Str("https://s3.amazonaws.com/x")
  /\ rdRes.status = 302
  /\ rdRes.location = "https://s3.amazonaws.com/x"

\* a fetch that yields no URL for the block: it was not made, it threw, or
\* its record map has neither a signed URL nor a raw source URL
YieldsNoUrl(outcome) ==
  \/ outcome.kind # "map"
  \/ ~IsUrl(FreshIn(outcome)) /\ ~IsUrl(RawIn(outcome))

\* C10 as stated: for valid parameters, whenever neither the signed fetch nor
\* the unsigned fetch yields any URL for the block, the response is 404.
C10_NoUrlGives404 ==
  (RdDone /\ RdValidRequest /\ YieldsNoUrl(rdSigned) /\ YieldsNoUrl(rdUnsigned)) =>
    rdRes.status = 404

\* C10 amended: for valid parameters, whenever the last fetch made returned a
\* record map without a URL for the block (the signed fetch returned neither a
\* signed nor a raw source URL, or it threw and the unsigned fetch returned no
\* raw source URL) the response is 404; when both fetches throw it is 502.
C10_NoUrlGives404Or502 ==
  (RdDone /\ RdValidRequest) =>
    /\ (rdSigned.kind = "map" /\ YieldsNoUrl(rdSigned)) => rdRes.status = 404
    /\ (rdSigned.kind = "throw" /\ rdUnsigned.kind = "map" /\ ~IsUrl(RawIn(rdUnsigned))) =>
         rdRes.status = 404
    /\ (rdSigned.kind = "throw" /\ rdUnsigned.kind = "throw") => rdRes.status = 502

\* the signed fetch threw, the unsigned one returned a block without source
C10_Witness ==
  /\ RdDone
  /\ rdSigned.kind = "throw"
  /\ rdUnsigned.kind = "map"
  /\ rdReq.blockId.val \in DOMAIN rdUnsigned.map.block.entries
  /\ RawIn(rdUnsigned) = Undefined
  /\ rdRes.status = 404

(***************************************************************************)
(* Streaming proxy properties.                                             *)
(***************************************************************************)
\* the URL resolvePdfUrl returned, Undefined while or when it has none
StResolvedUrl ==
  IF stSigned.kind = "map" /\ stSigned.fresh.type = "string" THEN stSigned.fresh
  ELSE IF stSigned.kind = "map" /\ IsUrl(stSigned.raw) THEN stSigned.raw
  ELSE IF stUnsigned.kind = "map" /\ IsUrl(stUnsigned.raw) THEN stUnsigned.raw
  ELSE Undefined

\* C2: a request to the resolved file URL is issued only for a URL on an
\* allow-listed host; when the resolved URL's host is not on the allow-list
\* the response is 400 and no request to that URL is ever issued.
C2_FetchOnlyAllowedHosts ==
  /\ \A i \in 1..Len(stFetches) :
       /\ HostedUrl(stFetches[i].url)
       /\ stFetches[i].url = StResolvedUrl.val
  /\ (StResolvedUrl.type = "string" /\ ~HostedUrl(StResolvedUrl.val)) =>
       /\ stPc = "done"
       /\ stRes.status = 400
       /\ stFetches = <<>>

\* the resolved URL is on a look-alike host and the proxy answered 400
\* without fetching
C2_Witness ==
  /\ stPc = "done"
  /\ StResolvedUrl = Str("https://evilamazonaws.com/x")
  /\ stRes.status = 400
  /\ stFetches = <<>>

\* the signed fetch gave nothing usable: it threw, or its record map has
\* neither a signed URL nor a raw source URL for the block
StSignedGaveNothing ==
  \/ stSigned.kind = "throw"
  \/ stSigned.kind = "map" /\ stSigned.fresh.type # "string" /\ ~IsUrl(stSigned.raw)

\* C11: resolvePdfUrl takes (a) the fresh signed URL of the signed fetch if
\* present, (b) else the raw source URL of that same record map, (c) else,
\* also when the signed fetch threw, the raw source URL of a second fetch made
\* with signing disabled, (d) else it fails; an earlier step always wins.
C11_ResolutionOrder ==
  /\ (stSigned.kind = "map" /\ stSigned.fresh.type = "string") =>
       /\ stUpstreamUrl = stSigned.fresh
       /\ stCalls = <<SignedCall(stReq.pageId.val)>>
  /\ (stSigned.kind = "map" /\ stSigned.fresh.type # "string" /\ IsUrl(stSigned.raw)) =>
       /\ stUpstreamUrl = stSigned.raw
       /\ stCalls = <<SignedCall(stReq.pageId.val)>>
  /\ StSignedGaveNothing =>
       /\ stCalls = <<SignedCall(stReq.pageId.val), UnsignedCall(stReq.pageId.val)>>
       /\ (stUnsigned.kind = "map" /\ IsUrl(stUnsigned.raw)) => stUpstreamUrl = stUnsigned.raw
       /\ (stUnsigned.kind = "map" /\ ~IsUrl(stUnsigned.raw)) =>
            /\ stUpstreamUrl = Undefined
            /\ stPc = "done"
            /\ stRes.error = "Failed to proxy PDF"
            /\ stFetches = <<>>

\* the signed fetch's record map held both URLs and the signed one was taken
C11_Witness ==
  /\ stSigned.kind = "map"
  /\ stSigned.fresh = Str("https://s3.amazonaws.com/x")
  /\ stSigned.raw = Str("https://evil.com/x")
  /\ stUpstreamUrl = Str("https://s3.amazonaws.com/x")
  /\ Len(stFetches) = 1

StDone == stPc = "done"

StValidRequest ==
  /\ stReq.method \in {"GET", "HEAD"}
  /\ stReq.blockId.type = "string" /\ stReq.blockId.val # ""
  /\ stReq.pageId.type = "string" /\ stReq.pageId.val # ""

\* resolution failed: the unsigned fetch threw or had no raw source URL
StResolutionFailed ==
  \/ stUnsigned.kind = "throw"
  \/ stUnsigned.kind = "map" /\ ~IsUrl(stUnsigned.raw)

\* the request to the file URL was issued and rejected
StFetchFailed == StDone /\ stFetches # <<>> /\ stUpstream = NoUpstreamResponse

\* the error outcomes shared by the stated and the amended C12
StErrorOutcomes ==
  StDone =>
    /\ stRes.sent = 1
    /\ stRes.error # "unhandled"
    /\ stReq.method \notin {"GET", "HEAD"} => stRes.status = 405
    /\ (stReq.method \in {"GET", "HEAD"} /\ ~StValidRequest) => stRes.status = 400
    /\ StResolutionFailed => stRes.status = 502
    /\ StFetchFailed => stRes.status = 502

\* C12 as stated: 405 for a method other than GET/HEAD, 400 for a missing or
\* non-string blockId/pageId, 502 for any error during resolution or during
\* the upstream file request; the handler never responds 404 and no
\* exception escapes it.
C12_ErrorOutcomesNever404 ==
  /\ StErrorOutcomes
  /\ stRes.status # 404

\* C12 amended: the same outcomes, and the handler never answers 404 of its
\* own: a 404 is sent only as the passed-through status of the upstream file
\* response.
C12_ErrorOutcomesOwn404 ==
  /\ StErrorOutcomes
  /\ stRes.status = 404 => (stUpstream.status = 404 /\ stRes.error = "")

\* no URL was found for the block and the proxy answered 502
C12_Witness ==
  /\ StDone
  /\ stSigned.kind = "throw"
  /\ stUnsigned.kind = "map"
  /\ ~IsUrl(stUnsigned.raw)
  /\ stRes.status = 502
  /\ stRes.sent = 1

\* the upstream response supplied header h (with a non-empty value)
UpstreamSupplied(h) == h \in DOMAIN stUpstream.headers /\ stUpstream.headers[h] # ""

PassthroughNames ==
  {"accept-ranges", "cache-control", "content-length", "content-range", "content-type",
   "etag", "last-modified"}

\* C13: the upstream request uses the client's method and carries exactly
\* those of range, if-none-match, if-modified-since that the client sent,
\* values unchanged; the response status equals the upstream status; only the
\* seven pass-through headers are copied; cache-control is set to
\* 'public, s-maxage=300, stale-while-revalidate=3600' if and only if upstream
\* supplied no cache-control.
C13_PassThrough ==
  /\ \A i \in 1..Len(stFetches) :
       /\ stFetches[i].method = stReq.method
       /\ DOMAIN stFetches[i].headers =
            {h \in {"range", "if-none-match", "if-modified-since"} :
               stReq.headers[h].type = "string"}
       /\ \A h \in DOMAIN stFetches[i].headers : stFetches[i].headers[h] = stReq.headers[h].val
  /\ stUpstream.status # 0 =>
       /\ stRes.status = stUpstream.status
       /\ DOMAIN stRes.headers \subseteq PassthroughNames
       /\ \A h \in PassthroughNames \ {"cache-control"} :
            IF UpstreamSupplied(h)
              THEN h \in DOMAIN stRes.headers /\ stRes.headers[h] = stUpstream.headers[h]
              ELSE h \notin DOMAIN stRes.headers
       /\ "cache-control" \in DOMAIN stRes.headers
       /\ stRes.headers["cache-control"] =
            IF UpstreamSupplied("cache-control")
              THEN stUpstream.headers["cache-control"]
              ELSE "public, s-maxage=300, stale-while-revalidate=3600"

\* a HEAD request with a range header only, answered from an upstream
\* response that carries cache-control and a cookie
C13_Witness ==
  /\ StDone
  /\ stReq.method = "HEAD"
  /\ stReq.headers["range"] = Str("v")
  /\ stReq.headers["if-none-match"] = Undefined
  /\ stUpstream.status = 206
  /\ UpstreamSupplied("set-cookie")
  /\ UpstreamSupplied("cache-control")
  /\ stRes.headers["cache-control"] = "z"
  /\ stFetches[1].headers = [h \in {"range"} |-> "v"]

\* the calls a handler has issued whose outcome it has not yet received
RdOutstanding ==
  Len(rdCalls) - (IF rdSigned.kind = "none" THEN 0 ELSE 1)
               - (IF rdUnsigned.kind = "none" THEN 0 ELSE 1)

StOutstanding ==
  Len(stCalls) - (IF stSigned.kind = "none" THEN 0 ELSE 1)
               - (IF stUnsigned.kind = "none" THEN 0 ELSE 1)

\* C14: in both handlers a request makes at most two getPage calls, the
\* first with signing enabled and the second with signing disabled, at most
\* one of them outstanding at any time; the second is made only after the
\* first threw or yielded no usable URL, never after the first yielded a URL
\* that was used.
C14_AtMostTwoSequentialCalls ==
  /\ Len(rdCalls) <= 2 /\ Len(stCalls) <= 2
  /\ RdOutstanding \in {0, 1} /\ StOutstanding \in {0, 1}
  /\ \A calls \in {rdCalls, stCalls} :
       /\ Len(calls) >= 1 => calls[1].signFileUrls = TRUE
       /\ Len(calls) = 2 => calls[2].signFileUrls = FALSE
  /\ Len(rdCalls) = 2 =>
       \/ rdSigned.kind = "throw"
       \/ rdSigned.kind = "map" /\ ~IsUrl(FreshIn(rdSigned)) /\ ~IsUrl(RawIn(rdSigned))
  /\ Len(stCalls) = 2 =>
       \/ stSigned.kind = "throw"
       \/ stSigned.kind = "map" /\ ~IsUrl(stSigned.fresh) /\ ~IsUrl(stSigned.raw)
  /\ (rdSigned.kind = "map" /\ rdRes.location # "") => Len(rdCalls) = 1
  /\ (stSigned.kind = "map" /\ stUpstreamUrl \in {stSigned.fresh, stSigned.raw}
        /\ stUpstreamUrl # Undefined) => Len(stCalls) = 1

\* both requests have made their second call, the redirect handler's after a
\* throw and the streaming proxy's after a record map without any URL
C14_Witness ==
  /\ Len(rdCalls) = 2 /\ rdSigned.kind = "throw"
  /\ Len(stCalls) = 2 /\ stSigned.kind = "map"
  /\ rdUnsigned.kind = "map" /\ stUnsigned.kind = "map"

\* C15: whatever the request and whatever each getPage call does (return a
\* record map or throw), the redirect handler eventually finishes, having
\* sent exactly one response, with status 302, 400, 404, 405 or 502; it never
\* sends more than one, and 502 is sent exactly when both the signed and
\* the unsigned fetch threw.
C15_RedirectCompletes ==
  /\ <>RdDone
  /\ [](rdRes.sent <= 1)
  /\ [](RdDone =>
         /\ rdRes.sent = 1
         /\ rdRes.status \in {302, 400, 404, 405, 502}
         /\ rdRes.status = 502 <=> (rdSigned.kind = "throw" /\ rdUnsigned.kind = "throw"))

\* both fetches threw and the handler answered 502
C15_Witness ==
  /\ RdDone
  /\ rdSigned.kind = "throw" /\ rdUnsigned.kind = "throw"
  /\ rdRes.status = 502 /\ rdRes.sent = 1

\* the upstream response has been received
StUpstreamReceived == stUpstream.status # 0

\* C16: once the upstream response is received, a HEAD request or an upstream
\* response without body ends the client response with no body; a GET with
\* an upstream body has it piped, ending the response when the body ends; if
\* the body errors before the response ended the connection is destroyed;
\* every request eventually reaches an ended or destroyed response.
C16_BodyHandling ==
  /\ <>(StDone /\ (stRes.ended \/ stRes.destroyed))
  /\ [](StDone => (stRes.ended \/ stRes.destroyed))
  /\ []((StUpstreamReceived /\ (stReq.method = "HEAD" \/ ~stUpstream.hasBody)) =>
         (StDone /\ stRes.ended /\ ~stRes.destroyed /\ stRes.body = "none"))
  /\ []((StUpstreamReceived /\ stReq.method = "GET" /\ stUpstream.hasBody) =>
         \/ ~StDone /\ stRes.body = "piping" /\ ~stRes.ended /\ ~stRes.destroyed
         \/ StDone /\ stRes.body = "piped" /\ stRes.ended /\ ~stRes.destroyed
         \/ StDone /\ stRes.body = "piping" /\ ~stRes.ended /\ stRes.destroyed)

\* the upstream body failed while it was piped and the connection was destroyed
C16_Witness ==
  /\ StDone
  /\ stReq.method = "GET" /\ stUpstream.status = 200 /\ stUpstream.hasBody
  /\ stRes.destroyed /\ ~stRes.ended

\* C17: with a request to each route in flight and their steps interleaved
\* at the await points, a step of one request changes nothing of the other
\* and nothing of the shared client, and what each request answers is fixed
\* by its own request and the upstream results of its own calls: the
\* redirect target is the URL selected from its own record maps, the proxy
\* fetches the URL resolved from its own record maps with its own method and
\* headers and answers with the status of its own upstream response.
C17_RequestIndependence ==
  /\ [][/\ notion' = notion
        /\ rdVars' # rdVars => stVars' = stVars
        /\ stVars' # stVars => rdVars' = rdVars]_vars
  /\ [](rdRes.status = 302 => rdRes.location = RdSelectedUrl.val)
  /\ [](rdRes.status = 502 => (rdSigned.kind = "throw" /\ rdUnsigned.kind = "throw"))
  /\ [](\A i \in 1..Len(stFetches) :
          /\ stFetches[i].url = StResolvedUrl.val
          /\ stFetches[i].method = stReq.method
          /\ \A h \in DOMAIN stFetches[i].headers :
               stFetches[i].headers[h] = stReq.headers[h].val)
  /\ [](StUpstreamReceived => stRes.status = stUpstream.status)

\* both requests were answered from the same client, with different URLs:
\* the redirect went to the signed URL of its own record map while the
\* proxy had to fall back to its unsigned fetch
C17_Witness ==
  /\ RdDone /\ rdRes.status = 302 /\ rdSigned.kind = "map"
  /\ StDone /\ stRes.status = 206 /\ stSigned.kind = "throw"
  /\ Len(stCalls) = 2 /\ Len(rdCalls) = 1

\* the response is a redirect to the fresh signed URL of the signed fetch
RdRedirectsToFreshUrl ==
  /\ rdRes.status = 302
  /\ rdSigned.kind = "map"
  /\ IsUrl(FreshIn(rdSigned))
  /\ rdRes.location = FreshIn(rdSigned).val

\* C20: the redirect handler's response carries Cache-Control
\* 'public, s-maxage=3300, stale-while-revalidate=86400' exactly when it is a
\* 302 redirect to a fresh signed URL; redirects to a raw source URL and
\* the 400, 404, 405 and 502 responses carry no Cache-Control header.
C20_CacheControlIffFreshRedirect ==
  /\ rdRes.cacheControl = "public, s-maxage=3300, stale-while-revalidate=86400"
       <=> RdRedirectsToFreshUrl
  /\ ~RdRedirectsToFreshUrl => rdRes.cacheControl = ""

\* a redirect to the fresh signed URL, sent with the header
C20_Witness ==
  /\ RdDone
  /\ RdRedirectsToFreshUrl
  /\ rdRes.cacheControl = "public, s-maxage=3300, stale-while-revalidate=86400"

\* C3: every classifier (isNotionHostedUrl of both rewriters, isAllowedHost of
\* both handlers) answers true exactly when its input parses as a URL whose
\* hostname is an allow-listed domain or a subdomain of one, and false for
\* everything else.
C3_ClassifiersMatchAllowList ==
  clsPc = "done" =>
    /\ clsResult.pdf = HostedUrl(clsInput)
    /\ clsResult.file = HostedUrl(clsInput)
    /\ clsResult.redirect = HostedUrl(clsInput)
    /\ clsResult.stream = HostedUrl(clsInput)

\* C18: on every input string the rewriters' isNotionHostedUrl and the
\* handlers' isAllowedHost return the same boolean.
C18_ClassifiersEquivalent ==
  clsPc = "done" =>
    /\ clsResult.pdf = clsResult.file
    /\ clsResult.redirect = clsResult.stream
    /\ clsResult.file = clsResult.redirect

\* C19: each rewriter is idempotent on whole record maps: applying it to its
\* own result, with the same pageId, returns a record map equal to that
\* result (the proxy references of the first pass are kept by the second).
C19_RewriteIdempotent ==
  (rwPc = "done" /\ rwFirst # NoReturn) => rwResult.value = rwFirst.value

\* the first pass wrote a proxy reference and the second pass ran over it
C19_Witness ==
  /\ rwPc = "done"
  /\ rwFirst.ref = "fresh"
  /\ rwResult.ref = "fresh"
  /\ \E b \in DOMAIN rwFirst.value.signed_urls.entries :
       /\ StartsWith(rwFirst.value.signed_urls.entries[b].val, "/api/notion-file?")
       /\ rwResult.value.signed_urls.entries[b] = rwFirst.value.signed_urls.entries[b]

\* the entries of the input, and of the returned record map
InputEntries == rwInput.signed_urls.entries
OutputEntries == rwResult.value.signed_urls.entries
RewriteDone == rwPc = "done" /\ rwResult.ref = "fresh"

\* a string entry of the input whose block is a pdf block and whose URL is on
\* an allow-listed host
HostedPdfEntry(blockId) ==
  /\ blockId \in DOMAIN InputEntries
  /\ InputEntries[blockId].type = "string"
  /\ BlockTypeOf(rwInput, blockId) = Str("pdf")
  /\ HostedUrl(InputEntries[blockId].val)

\* C4 as stated: in both variants a pdf block with a signed URL on an
\* allow-listed host is rewritten to '/assets-pdf/<pageId>/<blockId>', both
\* identifiers percent-encoded.
C4_BothVariantsAssetsPdfPath ==
  RewriteDone =>
    \A blockId \in DOMAIN InputEntries :
      HostedPdfEntry(blockId) =>
        /\ blockId \in DOMAIN OutputEntries
        /\ OutputEntries[blockId] =
             Str("/assets-pdf/" \o encodeURIComponent(rwPageId) \o "/"
                   \o encodeURIComponent(blockId))

\* C4 amended: the legacy variant rewrites such a block to
\* '/assets-pdf/<pageId>/<blockId>', the general variant to
\* '/api/notion-file?blockId=<blockId>&pageId=<pageId>', identifiers
\* percent-encoded in both.
C4_HostedPdfRewrittenToProxyPath ==
  RewriteDone =>
    \A blockId \in DOMAIN InputEntries :
      HostedPdfEntry(blockId) =>
        /\ blockId \in DOMAIN OutputEntries
        /\ OutputEntries[blockId] =
             IF rwVariant = "pdf"
               THEN Str("/assets-pdf/" \o encodeURIComponent(rwPageId) \o "/"
                          \o encodeURIComponent(blockId))
               ELSE Str("/api/notion-file?blockId=" \o encodeURIComponent(blockId)
                          \o "&pageId=" \o encodeURIComponent(rwPageId))

\* a finished general-variant run that rewrote a hosted pdf block whose
\* identifier and page identifier both need escaping
C4_Witness ==
  /\ RewriteDone
  /\ rwVariant = "file"
  /\ rwPageId = "p/2"
  /\ HostedPdfEntry("a/b")
  /\ OutputEntries["a/b"] = Str("/api/notion-file?blockId=a%2Fb&pageId=p%2F2")

\* the target set of each variant
TargetTypes == IF rwVariant = "pdf" THEN {"pdf"} ELSE {"pdf", "file", "audio", "video"}

InTargetSet(blockId) ==
  /\ BlockTypeOf(rwInput, blockId).type = "string"
  /\ BlockTypeOf(rwInput, blockId).val \in TargetTypes

\* the local proxy reference of the running variant
ProxyReference(blockId) ==
  IF rwVariant = "pdf"
    THEN Str("/assets-pdf/" \o encodeURIComponent(rwPageId) \o "/" \o encodeURIComponent(blockId))
    ELSE Str("/api/notion-file?blockId=" \o encodeURIComponent(blockId)
               \o "&pageId=" \o encodeURIComponent(rwPageId))

\* C5: a string entry is replaced by the proxy reference if and only if its
\* block's type is in the variant's target set and its URL is on an
\* allow-listed host; every other string entry (other block types, block
\* missing, URL on a non-hosted host) keeps exactly its original URL.
C5_ReplacedIffTargetAndHosted ==
  RewriteDone =>
    \A blockId \in DOMAIN InputEntries :
      InputEntries[blockId].type = "string" =>
        /\ blockId \in DOMAIN OutputEntries
        /\ OutputEntries[blockId] =
             IF InTargetSet(blockId) /\ HostedUrl(InputEntries[blockId].val)
               THEN ProxyReference(blockId)
               ELSE InputEntries[blockId]

\* C6 as stated: an entry whose value is not a string is in the output with
\* the same key and the same value.
C6_NonStringEntriesKept ==
  RewriteDone =>
    \A blockId \in DOMAIN InputEntries :
      InputEntries[blockId].type # "string" =>
        /\ blockId \in DOMAIN OutputEntries
        /\ OutputEntries[blockId] = InputEntries[blockId]

\* C6 amended: an entry whose value is not a string is dropped, its key is
\* not in the output signed-URL mapping.
C6_NonStringEntriesDropped ==
  RewriteDone =>
    \A blockId \in DOMAIN InputEntries :
      InputEntries[blockId].type # "string" => blockId \notin DOMAIN OutputEntries

\* a finished run over a mapping with a non-string entry and a string entry
C6_Witness ==
  /\ RewriteDone
  /\ \E blockId \in DOMAIN InputEntries : InputEntries[blockId].type = "number"
  /\ \E blockId \in DOMAIN InputEntries : blockId \in DOMAIN OutputEntries

\* C7: the input record map is never mutated; with no signed-URL mapping the
\* input itself is returned; otherwise every field of the returned record map
\* other than the signed-URL mapping equals the input's.
C7_InputUntouched ==
  /\ recordMap = rwInput
  /\ rwPc = "done" =>
       IF NoSignedUrls(rwInput)
         THEN rwResult = [ref |-> "input", value |-> rwInput]
         ELSE /\ rwResult.ref = "fresh"
              /\ rwResult.value.isNull = rwInput.isNull
              /\ rwResult.value.block = rwInput.block
              /\ rwResult.value.collection = rwInput.collection

\* a finished run that replaced an entry, so that the returned mapping
\* differs from the input's
C7_Witness ==
  /\ RewriteDone
  /\ \E blockId \in DOMAIN InputEntries :
       /\ blockId \in DOMAIN OutputEntries
       /\ OutputEntries[blockId] # InputEntries[blockId]
  /\ recordMap.signed_urls.entries = InputEntries
====
